---- MODULE Spec2Model ----
(***************************************************************************)
(* The signing-algorithm registry of did-jwt (SignerAlgorithm.ts, kept as  *)
(* src/unnamed/part_000): the process-wide `algorithms` dictionary, the    *)
(* lookup SignerAlg, the extension point AddSigningAlgorithm, and the      *)
(* three built-in adapter factories ES256SignerAlg, ES256KSignerAlg and    *)
(* Ed25519SignerAlg, whose adapters suspend on the caller's signer.        *)
(*                                                                         *)
(* JavaScript values are records [type, val]: `type` is what typeof        *)
(* yields, `val` a printable identity.  The dictionary is a plain object   *)
(* literal, so a property read or an `in` test that misses the object's    *)
(* own keys falls through to Object.prototype.                             *)
(***************************************************************************)
EXTENDS Integers, Sequences, FiniteSets, TLC

VARIABLES algorithms, calls, last

vars == <<algorithms, calls, last>>

(***************************************************************************)
(* Bounds of the model.                                                    *)
(***************************************************************************)
\* Adapter calls that may be in flight together.
MaxCalls == 2
\* Bytes of one signature coordinate (r or s); 32 in the deployed curves.
CoordLen == 1

(***************************************************************************)
(* JavaScript values and the operators the source applies to them.         *)
(***************************************************************************)
Str(s) == [type |-> "string", val |-> s]
Fn(id) == [type |-> "function", val |-> id]
Undefined == [type |-> "undefined", val |-> "undefined"]
Null == [type |-> "object", val |-> "null"]
Num(s) == [type |-> "number", val |-> s]
PlainObject == [type |-> "object", val |-> "{}"]

TypeOf(v) == v.type

\* ToBoolean: the falsy values among those the model draws.
Truthy(v) == v \notin {Undefined, Null, Str(""), Num("0")}

\* A value used as a property key is converted to its string.
ToPropertyKey(v) == v.val

\* What every plain object inherits: the dictionary is written as an object
\* literal, whose prototype is Object.prototype.
ObjectPrototype ==
  [k \in {"toString", "constructor", "__proto__"} |->
     CASE k = "toString" -> Fn("Object.prototype.toString")
       [] k = "constructor" -> Fn("Object")
       [] OTHER -> [type |-> "object", val |-> "Object.prototype"]]

\* obj[key]: the own property, else the inherited one, else undefined.
Get(obj, key) ==
  IF key \in DOMAIN obj THEN obj[key]
  ELSE IF key \in DOMAIN ObjectPrototype THEN ObjectPrototype[key]
  ELSE Undefined

\* key in obj: own or inherited.
HasProperty(obj, key) == key \in DOMAIN obj \/ key \in DOMAIN ObjectPrototype

\* obj[key] = value on an ordinary key: creates or overwrites the own property.
Put(obj, key, value) ==
  [k \in DOMAIN obj \cup {key} |-> IF k = key THEN value ELSE obj[k]]

(***************************************************************************)
(* The registry.                                                           *)
(***************************************************************************)
BuiltInNames == {"ES256", "ES256K", "ES256K-R", "Ed25519", "EdDSA"}

\* const algorithms = { ES256: ES256SignerAlg(), ... }: five closures, one
\* per factory call; Ed25519 and EdDSA come from two calls of one factory.
InitialAlgorithms ==
  [k \in BuiltInNames |->
     CASE k = "ES256" -> Fn("ES256SignerAlg()")
       [] k = "ES256K" -> Fn("ES256KSignerAlg()")
       [] k = "ES256K-R" -> Fn("ES256KSignerAlg(true)")
       [] k = "Ed25519" -> Fn("Ed25519SignerAlg()#Ed25519")
       [] OTHER -> Fn("Ed25519SignerAlg()#EdDSA")]

Returned(v) == [threw |-> FALSE, error |-> "", value |-> v]
Threw(msg) == [threw |-> TRUE, error |-> msg, value |-> Undefined]

ErrUnsupported == "not_supported: Unsupported algorithm"
ErrInvalidName == "Invalid algorithm name: must be a non-empty string"
ErrInvalidImpl == "Invalid implementation: must be a function"
ErrDuplicate == "Algorithm already exists"

\* function SignerAlg(alg)
SignerAlg(algs, alg) ==
  LET impl == Get(algs, ToPropertyKey(alg))
  IN IF ~Truthy(impl) THEN Threw(ErrUnsupported) ELSE Returned(impl)

\* AddSigningAlgorithm without the `alg in algorithms` test.
AddSigningAlgorithm_NoDuplicateCheck(algs, alg, impl) ==
  IF ~Truthy(alg) \/ TypeOf(alg) # "string"
    THEN [outcome |-> Threw(ErrInvalidName), algorithms |-> algs]
  ELSE IF ~Truthy(impl) \/ TypeOf(impl) # "function"
    THEN [outcome |-> Threw(ErrInvalidImpl), algorithms |-> algs]
  ELSE [outcome |-> Returned(Undefined),
        algorithms |-> Put(algs, ToPropertyKey(alg), impl)]

\* AddSigningAlgorithm testing only the type of `alg`, not its emptiness.
AddSigningAlgorithm_EmptyNameAllowed(algs, alg, impl) ==
  IF TypeOf(alg) # "string"
    THEN [outcome |-> Threw(ErrInvalidName), algorithms |-> algs]
  ELSE IF ~Truthy(impl) \/ TypeOf(impl) # "function"
    THEN [outcome |-> Threw(ErrInvalidImpl), algorithms |-> algs]
  ELSE IF HasProperty(algs, ToPropertyKey(alg))
    THEN [outcome |-> Threw(ErrDuplicate), algorithms |-> algs]
  ELSE [outcome |-> Returned(Undefined),
        algorithms |-> Put(algs, ToPropertyKey(alg), impl)]

\* AddSigningAlgorithm testing only that `impl` is given, not that it is a
\* function.
AddSigningAlgorithm_AnyImplAllowed(algs, alg, impl) ==
  IF ~Truthy(alg) \/ TypeOf(alg) # "string"
    THEN [outcome |-> Threw(ErrInvalidName), algorithms |-> algs]
  ELSE IF ~Truthy(impl)
    THEN [outcome |-> Threw(ErrInvalidImpl), algorithms |-> algs]
  ELSE IF HasProperty(algs, ToPropertyKey(alg))
    THEN [outcome |-> Threw(ErrDuplicate), algorithms |-> algs]
  ELSE [outcome |-> Returned(Undefined),
        algorithms |-> Put(algs, ToPropertyKey(alg), impl)]

\* AddSigningAlgorithm storing impl before it tests for a duplicate.
AddSigningAlgorithm_WritesBeforeDuplicateCheck(algs, alg, impl) ==
  IF ~Truthy(alg) \/ TypeOf(alg) # "string"
    THEN [outcome |-> Threw(ErrInvalidName), algorithms |-> algs]
  ELSE IF ~Truthy(impl) \/ TypeOf(impl) # "function"
    THEN [outcome |-> Threw(ErrInvalidImpl), algorithms |-> algs]
  ELSE IF HasProperty(algs, ToPropertyKey(alg))
    THEN [outcome |-> Threw(ErrDuplicate),
          algorithms |-> Put(algs, ToPropertyKey(alg), impl)]
  ELSE [outcome |-> Returned(Undefined),
        algorithms |-> Put(algs, ToPropertyKey(alg), impl)]

\* AddSigningAlgorithm testing for a duplicate before it looks at impl.
AddSigningAlgorithm_DuplicateFirst(algs, alg, impl) ==
  IF ~Truthy(alg) \/ TypeOf(alg) # "string"
    THEN [outcome |-> Threw(ErrInvalidName), algorithms |-> algs]
  ELSE IF HasProperty(algs, ToPropertyKey(alg))
    THEN [outcome |-> Threw(ErrDuplicate), algorithms |-> algs]
  ELSE IF ~Truthy(impl) \/ TypeOf(impl) # "function"
    THEN [outcome |-> Threw(ErrInvalidImpl), algorithms |-> algs]
  ELSE [outcome |-> Returned(Undefined),
        algorithms |-> Put(algs, ToPropertyKey(alg), impl)]

\* function AddSigningAlgorithm(alg, impl): the outcome and the dictionary
\* the call leaves behind.
AddSigningAlgorithm(algs, alg, impl) ==
  IF ~Truthy(alg) \/ TypeOf(alg) # "string"
    THEN [outcome |-> Threw(ErrInvalidName), algorithms |-> algs]
  ELSE IF ~Truthy(impl) \/ TypeOf(impl) # "function"
    THEN [outcome |-> Threw(ErrInvalidImpl), algorithms |-> algs]
  ELSE IF HasProperty(algs, ToPropertyKey(alg))
    THEN [outcome |-> Threw(ErrDuplicate), algorithms |-> algs]
  ELSE [outcome |-> Returned(Undefined),
        algorithms |-> Put(algs, ToPropertyKey(alg), impl)]

(***************************************************************************)
(* Signatures.  A signer resolves to a pre-encoded string or to a          *)
(* structured EcdsaSignature {r, s, recoveryParam?}, or it rejects.  A     *)
(* string is the sequence of its characters, each the index (0..63) of a   *)
(* base64url digit; r and s are byte sequences; the optional recoveryParam *)
(* is the sequence of zero or one number.                                  *)
(***************************************************************************)
StringSig(chars) == [type |-> "string", chars |-> chars]
EcdsaSignature(r, s, rp) ==
  [type |-> "object", r |-> r, s |-> s, recoveryParam |-> rp]

Fulfilled(v) == [state |-> "fulfilled", value |-> v, reason |-> ""]
Rejected(msg) == [state |-> "rejected", value |-> Undefined, reason |-> msg]

\* The bits of a sequence of w-bit words, most significant first.
Bits(words, w) ==
  [i \in 1..(w * Len(words)) |->
     (words[((i - 1) \div w) + 1] \div (2 ^ (w - 1 - ((i - 1) % w)))) % 2]

\* The w-bit word starting at bit `from`; bits past the end read as zero.
RECURSIVE Word(_, _, _)
Word(bits, from, w) ==
  IF w = 0 THEN 0
  ELSE 2 * Word(bits, from, w - 1)
       + (IF from + w - 1 <= Len(bits) THEN bits[from + w - 1] ELSE 0)

\* util.bytesToBase64url: 6 bits per digit, no padding characters.
bytesToBase64url(bytes) ==
  LET bits == Bits(bytes, 8)
  IN [j \in 1..((Len(bits) + 5) \div 6) |-> Word(bits, 6 * (j - 1) + 1, 6)]

\* util.base64ToBytes: whole bytes only, trailing bits dropped.
base64ToBytes(chars) ==
  LET bits == Bits(chars, 6)
  IN [j \in 1..(Len(bits) \div 8) |-> Word(bits, 8 * (j - 1) + 1, 8)]

ErrNoRecoveryParam == "Signer did not return a recoveryParam"
ErrWrongSize == "Wrong size for signature"
ErrRecoveryMissing ==
  "not_supported: ES256K-R not supported when signer doesn't provide a recovery param"
ErrSignatureObject ==
  "invalid_config: expected a signer function that returns a string instead of signature object"

\* util.toJose(signature, recoverable): base64url of r || s, and for the
\* recoverable variant the appended recovery byte.  A recoverable encoding of
\* a signature without recoveryParam has no recovery byte to append; the
\* design text leaves that case open, and it is taken to fail.
toJose(signature, recoverable) ==
  IF recoverable /\ signature.recoveryParam = <<>>
    THEN Threw(ErrNoRecoveryParam)
  ELSE Returned(StringSig(bytesToBase64url(
         signature.r \o signature.s
         \o (IF recoverable THEN signature.recoveryParam ELSE <<>>))))

\* util.fromJose(signature): decodes r || s [|| recovery byte].  A string of
\* any other decoded length is no JOSE signature; the design text leaves
\* that case open, and it is taken to fail.
fromJose(signature) ==
  LET bytes == base64ToBytes(signature.chars)
  IN IF Len(bytes) \notin {2 * CoordLen, 2 * CoordLen + 1}
       THEN Threw(ErrWrongSize)
     ELSE Returned(EcdsaSignature(
            SubSeq(bytes, 1, CoordLen),
            SubSeq(bytes, CoordLen + 1, 2 * CoordLen),
            SubSeq(bytes, 2 * CoordLen + 1, Len(bytes))))

(***************************************************************************)
(* The adapters.  Each is `async function sign(payload, signer)`: it calls *)
(* signer(payload), suspends on the promise, and resumes with the settled  *)
(* result.  The operators below are the part after the await.              *)
(***************************************************************************)
instanceOfEcdsaSignature(object) ==
  TypeOf(object) = "object" /\ "r" \in DOMAIN object /\ "s" \in DOMAIN object

ES256SignerAlg(settled) ==
  IF settled.state = "rejected" THEN Threw(settled.reason)
  ELSE IF instanceOfEcdsaSignature(settled.value)
    THEN toJose(settled.value, FALSE)
  ELSE Returned(settled.value)

\* ES256KSignerAlg passing every string through, recoverable or not.
ES256KSignerAlg_NoRecoveryCheck(recoverable, settled) ==
  IF settled.state = "rejected" THEN Threw(settled.reason)
  ELSE IF instanceOfEcdsaSignature(settled.value)
    THEN toJose(settled.value, recoverable)
  ELSE Returned(settled.value)

\* ES256KSignerAlg requiring the recovery byte whatever `recoverable` is.
ES256KSignerAlg_AlwaysRecoverable(recoverable, settled) ==
  IF settled.state = "rejected" THEN Threw(settled.reason)
  ELSE IF instanceOfEcdsaSignature(settled.value)
    THEN toJose(settled.value, recoverable)
  ELSE IF fromJose(settled.value).threw
    THEN fromJose(settled.value)
  ELSE IF fromJose(settled.value).value.recoveryParam = <<>>
    THEN Threw(ErrRecoveryMissing)
  ELSE Returned(settled.value)

\* ES256KSignerAlg encoding a structured signature without passing
\* `recoverable` on to toJose.
ES256KSignerAlg_DropsRecoverable(recoverable, settled) ==
  IF settled.state = "rejected" THEN Threw(settled.reason)
  ELSE IF instanceOfEcdsaSignature(settled.value)
    THEN toJose(settled.value, FALSE)
  ELSE IF recoverable /\ fromJose(settled.value).threw
    THEN fromJose(settled.value)
  ELSE IF recoverable /\ fromJose(settled.value).value.recoveryParam = <<>>
    THEN Threw(ErrRecoveryMissing)
  ELSE Returned(settled.value)

ES256KSignerAlg(recoverable, settled) ==
  IF settled.state = "rejected" THEN Threw(settled.reason)
  ELSE IF instanceOfEcdsaSignature(settled.value)
    THEN toJose(settled.value, recoverable)
  ELSE IF recoverable /\ fromJose(settled.value).threw
    THEN fromJose(settled.value)
  ELSE IF recoverable /\ fromJose(settled.value).value.recoveryParam = <<>>
    THEN Threw(ErrRecoveryMissing)
  ELSE Returned(settled.value)

\* Ed25519SignerAlg encoding a structured signature as the EC adapters do.
Ed25519SignerAlg_EncodesObject(settled) ==
  IF settled.state = "rejected" THEN Threw(settled.reason)
  ELSE IF ~instanceOfEcdsaSignature(settled.value)
    THEN Returned(settled.value)
  ELSE toJose(settled.value, FALSE)

Ed25519SignerAlg(settled) ==
  IF settled.state = "rejected" THEN Threw(settled.reason)
  ELSE IF ~instanceOfEcdsaSignature(settled.value)
    THEN Returned(settled.value)
  ELSE Threw(ErrSignatureObject)

\* The dictionary with EdDSA bound to a closure of the ES256 factory.
Resume_EdDSAFromES256(fn, settled) ==
  CASE fn = Fn("ES256SignerAlg()") -> ES256SignerAlg(settled)
    [] fn = Fn("ES256KSignerAlg()") -> ES256KSignerAlg(FALSE, settled)
    [] fn = Fn("ES256KSignerAlg(true)") -> ES256KSignerAlg(TRUE, settled)
    [] fn = Fn("Ed25519SignerAlg()#EdDSA") -> ES256SignerAlg(settled)
    [] OTHER -> Ed25519SignerAlg(settled)

\* The continuation of the closure `fn`, one of the five built-in adapters.
Resume(fn, settled) ==
  CASE fn = Fn("ES256SignerAlg()") -> ES256SignerAlg(settled)
    [] fn = Fn("ES256KSignerAlg()") -> ES256KSignerAlg(FALSE, settled)
    [] fn = Fn("ES256KSignerAlg(true)") -> ES256KSignerAlg(TRUE, settled)
    [] OTHER -> Ed25519SignerAlg(settled)

BuiltInAdapters == {InitialAlgorithms[k] : k \in BuiltInNames}

(***************************************************************************)
(* Inputs the callers draw from.                                           *)
(***************************************************************************)
CustomNames == {"X1", "X2"}

\* Identifier strings: the built-ins, free names, names every object
\* inherits, and the empty string.
AlgStrings ==
  {Str(n) : n \in BuiltInNames \cup CustomNames \cup DOMAIN ObjectPrototype \cup {""}}

\* What an untyped caller may pass as `alg`.
AlgValues == AlgStrings \cup {Undefined, Null, Num("7")}

\* What an untyped caller may pass as `impl`: two callables and non-callables.
ImplValues == {Fn("implA"), Fn("implB"), Undefined, Null, PlainObject}

Payloads == {"header.payload"}

\* One coordinate of CoordLen bytes, every byte b.
Coord(b) == [i \in 1..CoordLen |-> b]

SigR == Coord(171)
SigS == Coord(205)

\* Strings a signer may resolve to: r || s encoded without and with a
\* recovery byte, and strings that are no signature encoding at all.
StringSigs ==
  {StringSig(bytesToBase64url(SigR \o SigS \o v)) : v \in {<<>>, <<0>>, <<1>>}}
  \cup {StringSig(<<>>), StringSig(bytesToBase64url(SigR))}

\* Structured signatures a signer may resolve to.
EcdsaSigs == {EcdsaSignature(SigR, SigS, v) : v \in {<<>>, <<1>>}}

ErrSigner == "signer failure"

\* How the promise returned by signer(payload) may settle.
SignerOutcomes ==
  {Fulfilled(v) : v \in StringSigs \cup EcdsaSigs} \cup {Rejected(ErrSigner)}

(***************************************************************************)
(* State.  `algorithms` is the dictionary's own properties.  `calls` holds *)
(* the adapter calls: pc is idle, awaiting (suspended on the signer),      *)
(* resumed (the signer settled, the continuation is queued) or done.       *)
(* `last` records the most recent registry call, its arguments, its        *)
(* outcome and the dictionary it found.                                    *)
(***************************************************************************)
CallIds == 1..MaxCalls

Pending == [state |-> "pending", value |-> Undefined, reason |-> ""]
NoOutcome == [threw |-> FALSE, error |-> "pending", value |-> Undefined]

IdleCall ==
  [pc |-> "idle", alg |-> "", adapter |-> Undefined, payload |-> "",
   signerArgs |-> <<>>, settled |-> Pending, outcome |-> NoOutcome]

Init ==
  /\ algorithms = InitialAlgorithms
  /\ calls = [c \in CallIds |-> IdleCall]
  /\ last = [op |-> "none", alg |-> Undefined, impl |-> Undefined,
             outcome |-> Returned(Undefined), before |-> InitialAlgorithms]

\* A caller runs AddSigningAlgorithm(alg, impl): synchronous, so one step.
Register(alg, impl) ==
  LET res == AddSigningAlgorithm(algorithms, alg, impl)
  IN /\ algorithms' = res.algorithms
     /\ last' = [op |-> "AddSigningAlgorithm", alg |-> alg, impl |-> impl,
                 outcome |-> res.outcome, before |-> algorithms]
     /\ UNCHANGED calls

\* SignerAlg storing what it found as an own property of the dictionary.
Resolve_Memoizes(alg) ==
  LET res == SignerAlg(algorithms, alg)
  IN /\ last' = [op |-> "SignerAlg", alg |-> alg, impl |-> Undefined,
                 outcome |-> res, before |-> algorithms]
     /\ algorithms' = IF res.threw THEN algorithms
                      ELSE Put(algorithms, ToPropertyKey(alg), res.value)
     /\ UNCHANGED calls

\* A caller runs SignerAlg(alg) and keeps or drops what it returns.
Resolve(alg) ==
  /\ last' = [op |-> "SignerAlg", alg |-> alg, impl |-> Undefined,
              outcome |-> SignerAlg(algorithms, alg), before |-> algorithms]
  /\ UNCHANGED <<algorithms, calls>>

\* A caller runs SignerAlg(alg)(payload, signer) for a built-in adapter: the
\* adapter calls signer(payload) and suspends on its promise.  Call ids are
\* handed out in order.
Invoke(c, alg, payload) ==
  LET res == SignerAlg(algorithms, Str(alg))
  IN /\ calls[c].pc = "idle"
     /\ \A d \in CallIds : d < c => calls[d].pc # "idle"
     /\ ~res.threw
     /\ res.value \in BuiltInAdapters
     /\ calls' = [calls EXCEPT ![c] =
                    [pc |-> "awaiting", alg |-> alg, adapter |-> res.value,
                     payload |-> payload, signerArgs |-> <<payload>>,
                     settled |-> Pending, outcome |-> NoOutcome]]
     /\ UNCHANGED <<algorithms, last>>

\* The signer's promise settles.
SignerSettles(c, settled) ==
  /\ calls[c].pc = "awaiting"
  /\ calls' = [calls EXCEPT ![c].pc = "resumed", ![c].settled = settled]
  /\ UNCHANGED <<algorithms, last>>

\* The continuation calling the signer again when its promise rejected.
AdapterResumes_Retries(c) ==
  /\ calls[c].pc = "resumed"
  /\ calls' =
       IF calls[c].settled.state = "rejected"
         THEN [calls EXCEPT ![c].pc = "awaiting",
                            ![c].settled = Pending,
                            ![c].signerArgs = Append(@, calls[c].payload)]
         ELSE [calls EXCEPT ![c].pc = "done",
                            ![c].outcome = Resume(calls[c].adapter, calls[c].settled)]
  /\ UNCHANGED <<algorithms, last>>

\* The continuation reading the signature from a slot shared by all calls,
\* which holds what the latest call's signer settled to.
AdapterResumes_SharedResult(c) ==
  LET settledCalls == {d \in CallIds : calls[d].pc \in {"resumed", "done"}}
      latest == CHOOSE d \in settledCalls : \A e \in settledCalls : e <= d
  IN /\ calls[c].pc = "resumed"
     /\ calls' = [calls EXCEPT ![c].pc = "done",
                               ![c].outcome = Resume(calls[c].adapter, calls[latest].settled)]
     /\ UNCHANGED <<algorithms, last>>

\* The continuation never running when the signer's promise rejected.
AdapterResumes_DropsRejection(c) ==
  /\ calls[c].pc = "resumed"
  /\ calls[c].settled.state = "fulfilled"
  /\ calls' = [calls EXCEPT ![c].pc = "done",
                            ![c].outcome = Resume(calls[c].adapter, calls[c].settled)]
  /\ UNCHANGED <<algorithms, last>>

\* The adapter's continuation runs to its return or throw.
AdapterResumes(c) ==
  /\ calls[c].pc = "resumed"
  /\ calls' = [calls EXCEPT ![c].pc = "done",
                            ![c].outcome = Resume(calls[c].adapter, calls[c].settled)]
  /\ UNCHANGED <<algorithms, last>>

RegisterAny == \E alg \in AlgValues, impl \in ImplValues : Register(alg, impl)
ResolveAny == \E alg \in AlgStrings : Resolve(alg)
InvokeAny == \E c \in CallIds, alg \in BuiltInNames, p \in Payloads : Invoke(c, alg, p)
SettleAny == \E c \in CallIds, s \in SignerOutcomes : SignerSettles(c, s)
ResumeAny == \E c \in CallIds : AdapterResumes(c)

\* The registry alone.
RegistryNext == RegisterAny \/ ResolveAny
RegistrySpec == Init /\ [][RegistryNext]_vars

\* Adapter calls alone, against the startup registry.
AdapterNext == InvokeAny \/ SettleAny \/ ResumeAny
AdapterSpec == Init /\ [][AdapterNext]_vars

\* Registry calls interleaved with adapter calls: the same actions, each
\* drawing from the few inputs that tell the interleavings apart (a free
\* name, a built-in name and an inherited name; two callables; the
\* recoverable and the EdDSA adapter; a string, a structured signature and
\* a rejection).
SharedAlgs == {Str("X1"), Str("ES256K-R"), Str("toString")}
SharedImpls == {Fn("implA"), Fn("implB")}
SharedAdapters == {"ES256K-R", "EdDSA"}
SharedOutcomes ==
  {Fulfilled(StringSig(bytesToBase64url(SigR \o SigS))),
   Fulfilled(EcdsaSignature(SigR, SigS, <<1>>)),
   Rejected(ErrSigner)}

RegisterShared == \E alg \in SharedAlgs, impl \in SharedImpls : Register(alg, impl)
ResolveShared == \E alg \in SharedAlgs : Resolve(alg)
InvokeShared == \E c \in CallIds, alg \in SharedAdapters, p \in Payloads : Invoke(c, alg, p)
SettleShared == \E c \in CallIds, s \in SharedOutcomes : SignerSettles(c, s)

Next == RegisterShared \/ ResolveShared \/ InvokeShared \/ SettleShared \/ ResumeAny
Spec == Init /\ [][Next]_vars

\* Adapter calls as they run to their end.  The job queue runs every
\* continuation whose promise has settled, so a resumed call is not left
\* waiting forever; nothing obliges a signer to settle.
FairNext == InvokeShared \/ SettleShared \/ ResumeAny
FairSpec ==
  Init /\ [][FairNext]_vars /\ \A c \in CallIds : WF_vars(AdapterResumes(c))

(***************************************************************************)
(* Properties of the registry.                                             *)
(***************************************************************************)
IsAdd == last.op = "AddSigningAlgorithm"
IsLookup == last.op = "SignerAlg"
NonEmptyString(v) == TypeOf(v) = "string" /\ v # Str("")
Callable(v) == TypeOf(v) = "function"
\* The identifier is a key of the registry the call found.
WasPresent(v) == TypeOf(v) = "string" /\ v.val \in DOMAIN last.before

\* C1: AddSigningAlgorithm with an identifier that is already registered (a
\* built-in or one added earlier) and a callable impl fails with the
\* duplicate-algorithm error.
C1_DuplicateRejected ==
  (IsAdd /\ WasPresent(last.alg) /\ Callable(last.impl))
    => last.outcome = Threw(ErrDuplicate)

\* A name added earlier is offered again and refused.
C1_Witness ==
  /\ IsAdd /\ last.alg = Str("X1") /\ Callable(last.impl)
  /\ "X1" \in DOMAIN last.before
  /\ last.outcome = Threw(ErrDuplicate)

\* C2: SignerAlg fails with the unsupported-algorithm error for every
\* identifier string that is not registered, the empty string and the names
\* every object inherits included.
C2_AbsentUnsupported ==
  (IsLookup /\ last.alg.val \notin DOMAIN last.before)
    => last.outcome = Threw(ErrUnsupported)

\* C3: the registry is append-only: an identifier that maps to an adapter
\* maps to the same adapter after every step, registry call or adapter step.
C3_AppendOnly ==
  [][\A k \in DOMAIN algorithms :
       k \in DOMAIN algorithms' /\ algorithms'[k] = algorithms[k]]_vars

\* A registered name has been offered again with another callable, while an
\* adapter call ran to its end.
C3_Witness ==
  /\ IsAdd /\ last.alg = Str("X1") /\ Callable(last.impl)
  /\ "X1" \in DOMAIN last.before
  /\ last.impl # algorithms["X1"]
  /\ \E c \in CallIds : calls[c].pc = "done"

\* C4: the registry starts with exactly the five built-in identifiers, and
\* in every state SignerAlg returns, for each of them, the adapter installed
\* at startup.
C4_BuiltInsPermanent ==
  /\ last.op = "none" => DOMAIN algorithms = BuiltInNames
  /\ \A k \in BuiltInNames :
       SignerAlg(algorithms, Str(k)) = Returned(InitialAlgorithms[k])
  /\ (IsLookup /\ last.alg.val \in BuiltInNames)
       => last.outcome = Returned(InitialAlgorithms[last.alg.val])

\* A callable has been offered under a built-in name.
C4_Witness ==
  /\ IsAdd /\ last.alg = Str("EdDSA") /\ last.impl = Fn("implA")
  /\ last.outcome.threw

\* C5: AddSigningAlgorithm succeeds for every non-empty identifier string
\* that is not registered and every callable impl, and SignerAlg then
\* returns that impl; names every object inherits included.
C5_Extensible ==
  (IsAdd /\ NonEmptyString(last.alg) /\ ~WasPresent(last.alg) /\ Callable(last.impl))
    => /\ ~last.outcome.threw
       /\ SignerAlg(algorithms, last.alg) = Returned(last.impl)

\* C6: AddSigningAlgorithm fails with the invalid-name error whenever alg is
\* empty or not a string, whatever impl is.
C6_InvalidName ==
  (IsAdd /\ ~NonEmptyString(last.alg)) => last.outcome = Threw(ErrInvalidName)

\* The empty name has been offered with a callable.
C6_Witness ==
  /\ IsAdd /\ last.alg = Str("") /\ Callable(last.impl)
  /\ last.outcome = Threw(ErrInvalidName)

\* C7: AddSigningAlgorithm fails with the invalid-implementation error
\* whenever alg is a non-empty string and impl is not callable.
C7_InvalidImplementation ==
  (IsAdd /\ NonEmptyString(last.alg) /\ ~Callable(last.impl))
    => last.outcome = Threw(ErrInvalidImpl)

\* A free name has been offered with an object that is not a function.
C7_Witness ==
  /\ IsAdd /\ last.alg = Str("X2") /\ last.impl = PlainObject
  /\ "X2" \notin DOMAIN last.before
  /\ last.outcome = Threw(ErrInvalidImpl)

(***************************************************************************)
(* Properties of the adapters.                                             *)
(***************************************************************************)
\* Call c has ended and its signer resolved to a string.
EndedOnString(c) ==
  /\ calls[c].pc = "done"
  /\ calls[c].settled.state = "fulfilled"
  /\ TypeOf(calls[c].settled.value) = "string"

\* Call c has ended and its signer resolved to an object with r and s.
EndedOnStructured(c) ==
  /\ calls[c].pc = "done"
  /\ calls[c].settled.state = "fulfilled"
  /\ calls[c].settled.value \in EcdsaSigs

\* Bytes a pre-encoded signature decodes to: 2 * CoordLen for r || s alone,
\* one more with the recovery byte.
DecodedLen(sig) == Len(base64ToBytes(sig.chars))

\* C8: when the signer of an ES256K-R call resolves to a pre-encoded r || s
\* signature without recovery byte, the call fails with the
\* recovery-param-missing error and returns no signature.
C8_RecoveryParamMissing ==
  \A c \in CallIds :
    (/\ EndedOnString(c)
     /\ calls[c].alg = "ES256K-R"
     /\ DecodedLen(calls[c].settled.value) = 2 * CoordLen)
      => calls[c].outcome = Threw(ErrRecoveryMissing)

C8_Witness ==
  \E c \in CallIds :
    /\ EndedOnString(c)
    /\ calls[c].alg = "ES256K-R"
    /\ DecodedLen(calls[c].settled.value) = 2 * CoordLen
    /\ calls[c].outcome.threw

\* C9: the Ed25519/EdDSA adapter returns a string result of the signer
\* unchanged, fails with the invalid_config error on a structured signature,
\* and never returns or encodes a structured signature.
C9_EdDSAStringsOnly ==
  \A c \in CallIds :
    calls[c].alg \in {"Ed25519", "EdDSA"} =>
      /\ EndedOnString(c) => calls[c].outcome = Returned(calls[c].settled.value)
      /\ EndedOnStructured(c) => calls[c].outcome = Threw(ErrSignatureObject)
      /\ (calls[c].pc = "done" /\ ~calls[c].outcome.threw)
           => /\ TypeOf(calls[c].outcome.value) = "string"
              /\ calls[c].outcome.value = calls[c].settled.value

\* An EdDSA call has ended on a structured signature.
C9_Witness ==
  \E c \in CallIds :
    /\ calls[c].alg = "EdDSA"
    /\ EndedOnStructured(c)
    /\ calls[c].outcome.threw

\* C10: on a string result of the signer, ES256 and ES256K return exactly
\* that string, ES256K-R returns exactly that string when it carries a
\* recovery byte, and no EC adapter returns a string other than the
\* signer's.
C10_StringPassThrough ==
  \A c \in CallIds :
    (EndedOnString(c) /\ calls[c].alg \in {"ES256", "ES256K", "ES256K-R"}) =>
      /\ calls[c].alg \in {"ES256", "ES256K"}
           => calls[c].outcome = Returned(calls[c].settled.value)
      /\ (calls[c].alg = "ES256K-R"
          /\ DecodedLen(calls[c].settled.value) = 2 * CoordLen + 1)
           => calls[c].outcome = Returned(calls[c].settled.value)
      /\ ~calls[c].outcome.threw
           => calls[c].outcome.value = calls[c].settled.value

\* An ES256K-R call has returned a string that carries the recovery byte,
\* and an ES256K call a string that is no signature encoding.
C10_Witness ==
  /\ \E c \in CallIds :
       /\ EndedOnString(c) /\ calls[c].alg = "ES256K-R"
       /\ DecodedLen(calls[c].settled.value) = 2 * CoordLen + 1
       /\ ~calls[c].outcome.threw
  /\ \E c \in CallIds :
       /\ EndedOnString(c) /\ calls[c].alg = "ES256K"
       /\ calls[c].settled.value = StringSig(<<>>)
       /\ ~calls[c].outcome.threw

\* C11: on a structured signature ES256 and ES256K return the encoding of
\* r || s without recovery byte, recoveryParam present or not; ES256K-R
\* returns the encoding of r || s || recovery byte; an EC adapter's result
\* carries the recovery byte if and only if the adapter is ES256K-R.
C11_StructuredEncoding ==
  \A c \in CallIds :
    (EndedOnStructured(c) /\ calls[c].alg \in {"ES256", "ES256K", "ES256K-R"}) =>
      LET sig == calls[c].settled.value
          out == calls[c].outcome
      IN /\ calls[c].alg \in {"ES256", "ES256K"}
              => /\ out = Returned(StringSig(bytesToBase64url(sig.r \o sig.s)))
                 /\ base64ToBytes(out.value.chars) = sig.r \o sig.s
         /\ (calls[c].alg = "ES256K-R" /\ sig.recoveryParam # <<>>)
              => /\ out = Returned(StringSig(bytesToBase64url(
                            sig.r \o sig.s \o sig.recoveryParam)))
                 /\ base64ToBytes(out.value.chars)
                      = sig.r \o sig.s \o sig.recoveryParam
         /\ ~out.threw
              => (DecodedLen(out.value) = 2 * CoordLen + 1
                    <=> calls[c].alg = "ES256K-R")

\* An ES256K call has encoded a signature that has a recoveryParam without
\* the byte, and an ES256K-R call has encoded one with it.
C11_Witness ==
  /\ \E c \in CallIds :
       /\ EndedOnStructured(c) /\ calls[c].alg = "ES256K"
       /\ calls[c].settled.value.recoveryParam = <<1>>
       /\ ~calls[c].outcome.threw
       /\ DecodedLen(calls[c].outcome.value) = 2 * CoordLen
  /\ \E c \in CallIds :
       /\ EndedOnStructured(c) /\ calls[c].alg = "ES256K-R"
       /\ ~calls[c].outcome.threw
       /\ DecodedLen(calls[c].outcome.value) = 2 * CoordLen + 1

\* C12: of the registration attempts made for one identifier that is not yet
\* registered, in any interleaving with each other and with adapter calls,
\* the first succeeds and installs its adapter, and every later one fails
\* with the duplicate error and leaves the winner's adapter in place.
C12_OneWinner ==
  (IsAdd /\ NonEmptyString(last.alg) /\ Callable(last.impl)) =>
    /\ last.alg.val \in DOMAIN algorithms
    /\ ~WasPresent(last.alg)
         => /\ ~last.outcome.threw
            /\ algorithms[last.alg.val] = last.impl
    /\ WasPresent(last.alg)
         => /\ last.outcome = Threw(ErrDuplicate)
            /\ algorithms[last.alg.val] = last.before[last.alg.val]

\* C13: the adapters resolved for Ed25519 and for EdDSA produce the same
\* outcome on the same signer result, be it a string, a structured
\* signature or a rejection.
C13_EdDSAAlias ==
  \A c, d \in CallIds :
    (/\ calls[c].pc = "done" /\ calls[c].alg = "Ed25519"
     /\ calls[d].pc = "done" /\ calls[d].alg = "EdDSA"
     /\ calls[c].settled = calls[d].settled)
      => calls[c].outcome = calls[d].outcome

\* An Ed25519 call and an EdDSA call have both ended on the same structured
\* signature.
C13_Witness ==
  \E c, d \in CallIds :
    /\ EndedOnStructured(c) /\ calls[c].alg = "Ed25519"
    /\ EndedOnStructured(d) /\ calls[d].alg = "EdDSA"
    /\ calls[c].settled = calls[d].settled
    /\ calls[c].outcome.threw

\* C14: only a successful AddSigningAlgorithm call changes the registry:
\* SignerAlg and every adapter step leave it as it is.
C14_OnlyRegistrationMutates ==
  [][/\ algorithms' # algorithms
          => /\ last'.op = "AddSigningAlgorithm"
             /\ ~last'.outcome.threw
             /\ last'.before = algorithms
             /\ calls' = calls
     /\ calls' # calls => algorithms' = algorithms
     /\ (last' # last /\ last'.op = "SignerAlg") => algorithms' = algorithms]_vars

\* A lookup has failed, one adapter call has returned and another has
\* thrown.
C14_Witness ==
  /\ IsLookup /\ last.outcome.threw
  /\ \E c, d \in CallIds :
       /\ calls[c].pc = "done" /\ calls[c].outcome.threw
       /\ calls[d].pc = "done" /\ ~calls[d].outcome.threw

\* C15: an adapter call invokes the signer once, with its payload; when the
\* signer fails the call fails with the signer's error, returns no
\* signature and does not invoke the signer again.
C15_SignerOnceNoRetry ==
  \A c \in CallIds :
    /\ calls[c].pc # "idle" => calls[c].signerArgs = <<calls[c].payload>>
    /\ (calls[c].pc = "done" /\ calls[c].settled.state = "rejected")
         => calls[c].outcome = Threw(calls[c].settled.reason)

\* A call has ended on a rejection of its signer.
C15_Witness ==
  \E c \in CallIds :
    /\ calls[c].pc = "done"
    /\ calls[c].settled = Rejected(ErrSigner)
    /\ calls[c].outcome.threw
    /\ Len(calls[c].signerArgs) = 1

\* C16: the outcome of an adapter call is determined by its own algorithm
\* and its own signer's result, whatever the other calls do, in whatever
\* order they resume, and whatever is registered after it was resolved.
C16_CallsIndependent ==
  \A c \in CallIds :
    /\ calls[c].pc # "idle" => calls[c].adapter = InitialAlgorithms[calls[c].alg]
    /\ calls[c].pc = "done"
         => calls[c].outcome
              = Resume(InitialAlgorithms[calls[c].alg], calls[c].settled)

\* The second call has ended before the first, on another signer result,
\* and a registration was made while the first was suspended.
C16_Witness ==
  /\ MaxCalls >= 2
  /\ calls[1].pc = "done" /\ calls[2].pc = "done"
  /\ calls[1].settled # calls[2].settled
  /\ calls[1].outcome # calls[2].outcome
  /\ "X1" \in DOMAIN algorithms

\* C17: an adapter call has an outcome only after its signer has settled,
\* a call whose signer has settled ends with an outcome, and an outcome,
\* once there, does not change.
C17_OutcomeFollowsSigner ==
  /\ [](\A c \in CallIds :
          calls[c].outcome # NoOutcome
            => (calls[c].pc = "done" /\ calls[c].settled.state # "pending"))
  /\ [](\A c \in CallIds :
          calls[c].pc = "resumed"
            => <>(calls[c].pc = "done" /\ calls[c].outcome # NoOutcome))
  /\ [][\A c \in CallIds : calls[c].pc = "done" => calls'[c] = calls[c]]_vars

\* One call has ended on a rejection while another is still suspended.
C17_Witness ==
  \E c, d \in CallIds :
    /\ calls[c].pc = "done" /\ calls[c].settled.state = "rejected"
    /\ calls[c].outcome.threw
    /\ calls[d].pc = "awaiting"

\* C18: a failed AddSigningAlgorithm call leaves the registry as it found
\* it.
C18_FailedAddNoEffect ==
  (IsAdd /\ last.outcome.threw) => algorithms = last.before

\* A registered name has been offered again with another callable.
C18_Witness ==
  /\ IsAdd /\ last.outcome = Threw(ErrDuplicate)
  /\ last.alg = Str("X2") /\ Callable(last.impl)
  /\ "X2" \in DOMAIN last.before
  /\ last.impl # last.before["X2"]

\* C19: a failed AddSigningAlgorithm call reports one error, the first that
\* applies of invalid name, invalid implementation, duplicate.
C19_ErrorPrecedence ==
  IsAdd =>
    /\ ~NonEmptyString(last.alg) => last.outcome = Threw(ErrInvalidName)
    /\ (NonEmptyString(last.alg) /\ ~Callable(last.impl))
         => last.outcome = Threw(ErrInvalidImpl)
    /\ (NonEmptyString(last.alg) /\ Callable(last.impl) /\ WasPresent(last.alg))
         => last.outcome = Threw(ErrDuplicate)
    /\ last.outcome.threw
         => last.outcome.error =
              IF ~NonEmptyString(last.alg) THEN ErrInvalidName
              ELSE IF ~Callable(last.impl) THEN ErrInvalidImpl
              ELSE ErrDuplicate

\* A registered name has been offered with an object that is not a
\* function.
C19_Witness ==
  /\ IsAdd /\ last.alg = Str("ES256") /\ last.impl = PlainObject
  /\ last.outcome = Threw(ErrInvalidImpl)

====
